---- MODULE Spec2Model ----
(***************************************************************************)
(* Mine4Orpheus.py: the frame loop of main() as a state machine.           *)
(*                                                                         *)
(* One frame of `while running` (lines 325-612) is one step: the input     *)
(* sample, the ESC / inventory-overlay handling, the overworld or the      *)
(* underground pipeline, the camera follow, the look-ahead generation and  *)
(* the particle update done while rendering.  The frame is written as the  *)
(* operator Frame(s, in) on a record s of the program's variables, so that *)
(* the starting states of a specification can be computed by running the   *)
(* same frame code over a fixed input sequence from the constructed state. *)
(*                                                                         *)
(* Left out: drawing, sound, sprite animation (GridMole.frame and          *)
(* anim_timer), particle position / velocity / colour and the QUIT event.  *)
(* None of them is read by the simulation.                                 *)
(***************************************************************************)
EXTENDS Integers, Sequences, FiniteSets, TLC

(***************************************************************************)
(* Bounds of the model (not program constants)                             *)
(***************************************************************************)
\* Terrain columns. The source has WIDTH // TILE_SIZE = 20 (line 10).
COLS == 3
\* Particle slots. The source has ParticlePool(size=256) (line 166).
PoolSize == 9
\* Deepest row the mole is driven into under Spec.
MaxDepth == 11
\* Tiles destroyed after the starting state under Spec.
MaxDug == 2
\* Frames explored after the starting state under Spec.
MaxFrames == 4
\* A cooldown is not driven below -TimerSlack.
TimerSlack == 150
\* Hub columns explored on either side of the spawn column.
HubReach == 1
\* Camera resolution: camera_y is kept in units of 1/CamScale pixel.
CamScale == 2
\* Deepest row reached in SpecDescent.
DescentDepth == 30
\* Calls made on the particle pool after the starting state in SpecPool.
MaxPoolOps == 5
\* Calls made on the terrain after the starting state in SpecTerrain.
MaxTerrainOps == 3
\* Highest shovel level in SpecShovel.
MaxLevel == 12
\* Deepest row generated in SpecDeep, and rows generated in one run of it.
MaxWeightDepth == 100
MaxDeepRows == 2
MaxSettleFrames == 60

(***************************************************************************)
(* Configuration and constants, lines 7-50                                 *)
(***************************************************************************)
WIDTH == 640
HEIGHT == 480
TILE_SIZE == 32
ROWS == HEIGHT \div TILE_SIZE

EMPTY == 0
DIRT == 1
ROCK == 2
BRONZE == 3
SILVER == 4
GOLD == 5
DIAMOND == 6

Ores == {BRONZE, SILVER, GOLD, DIAMOND}

\* DURABILITY.get(tile_id, 1), lines 21 and 218
DURABILITY(tile_id) ==
  CASE tile_id = DIRT -> 1
    [] tile_id = ROCK -> 9999
    [] tile_id = BRONZE -> 3
    [] tile_id = SILVER -> 5
    [] tile_id = GOLD -> 8
    [] tile_id = DIAMOND -> 12
    [] OTHER -> 1

LEVEL_MAP ==
  <<
   << "W", "W", "W", "W", "W", "W", "W", "W", "W", "W", "W", "W", "W", "W", "W", "W", "W", "W", "W", "W" >>,
   << "W", ".", ".", ".", ".", ".", ".", ".", ".", ".", ".", ".", ".", ".", ".", ".", ".", ".", ".", "W" >>,
   << "W", ".", ".", "W", "W", "W", "W", ".", ".", ".", ".", ".", ".", "W", "W", "W", "W", ".", ".", "W" >>,
   << "W", ".", ".", "W", ".", ".", ".", ".", ".", ".", ".", ".", ".", ".", ".", ".", "W", ".", ".", "W" >>,
   << "W", ".", ".", ".", ".", ".", ".", ".", ".", "C", ".", ".", ".", ".", ".", ".", ".", ".", ".", "W" >>,
   << "W", ".", ".", ".", ".", ".", ".", "C", "C", "O", "C", "C", ".", ".", ".", ".", ".", ".", ".", "W" >>,
   << "W", ".", ".", ".", ".", ".", ".", ".", ".", "C", ".", ".", ".", ".", ".", ".", ".", ".", ".", "W" >>,
   << "W", ".", ".", "W", ".", ".", ".", ".", ".", ".", ".", ".", ".", ".", ".", ".", "W", ".", ".", "W" >>,
   << "W", ".", ".", "W", "W", "W", "W", ".", ".", ".", ".", ".", ".", "W", "W", "W", "W", ".", ".", "W" >>,
   << "W", ".", ".", ".", ".", ".", ".", ".", ".", ".", ".", ".", ".", ".", ".", ".", ".", ".", ".", "W" >>,
   << "W", ".", ".", "t", ".", ".", ".", ".", ".", ".", ".", ".", ".", ".", ".", ".", ".", ".", ".", "W" >>,
   << "W", ".", ".", ".", ".", ".", ".", ".", "H", ".", ".", ".", ".", ".", ".", ".", ".", ".", ".", "W" >>,
   << "W", ".", ".", ".", ".", ".", ".", ".", ".", ".", "S", ".", ".", ".", ".", ".", ".", ".", ".", "W" >>,
   << "W", "W", "W", "W", "W", "W", "W", "W", "W", "W", "W", "W", "W", "W", "W", "W", "W", "W", "W", "W" >>
  >>

\* The cell of LEVEL_MAP at column c_idx, row r_idx (both from 0).
MapChar(c_idx, r_idx) == LEVEL_MAP[r_idx + 1][c_idx + 1]

MapCells == {<<c, r>> : c \in 0..(Len(LEVEL_MAP[1]) - 1), r \in 0..(Len(LEVEL_MAP) - 1)}

\* The position of the one cell holding ch (lines 284-291).
MapPos(ch) == CHOOSE p \in MapCells : MapChar(p[1], p[2]) = ch

\* ow_grid as built by lines 281-291: the torch and spawn cells become floor.
ow_grid == [p \in MapCells |->
              IF MapChar(p[1], p[2]) \in {"t", "S"} THEN "." ELSE MapChar(p[1], p[2])]

orpheus_pos == MapPos("O")
hole_pos == MapPos("H")
spawn_pos == MapPos("S")

\* ow_grid.get((tx, ty), 'W'), line 370
OwGet(tx, ty) == IF <<tx, ty>> \in MapCells THEN ow_grid[<<tx, ty>>] ELSE "W"

\* math.hypot(ax - bx, ay - by) < 2.0, lines 382-394
Near(ax, ay, b) == (ax - b[1]) * (ax - b[1]) + (ay - b[2]) * (ay - b[2]) < 4

(***************************************************************************)
(* Buttons, lines 80-97 and 297-308.  A rectangle is <<x, y, w, h>>.       *)
(***************************************************************************)
btn_talk == <<WIDTH \div 2 - 190, HEIGHT - 50, 120, 40>>
btn_mine == <<WIDTH \div 2 - 50, HEIGHT - 50, 120, 40>>
btn_torch == <<WIDTH \div 2 + 90, HEIGHT - 50, 120, 40>>
btn_inv_toggle == <<10, 10, 90, 30>>
btn_surface == <<WIDTH - 160, 10, 150, 30>>
btn_open_shop == <<WIDTH - 150, HEIGHT - 100, 120, 40>>
btn_close_shop == <<WIDTH - 150, 20, 100, 40>>
btn_close_inv == <<WIDTH \div 2 - 50, HEIGHT - 80, 100, 40>>
btn_sell_all == <<WIDTH \div 4 - 75, HEIGHT \div 2, 150, 40>>
btn_buy_shovel == <<(WIDTH * 3) \div 4 - 75, HEIGHT \div 2, 150, 40>>

\* Button.is_clicked: rect.collidepoint(mouse_pos) and mouse_pressed[0]
is_clicked(rect, mouse_pos, mouse_pressed) ==
  /\ mouse_pressed
  /\ rect[1] <= mouse_pos[1] /\ mouse_pos[1] < rect[1] + rect[3]
  /\ rect[2] <= mouse_pos[2] /\ mouse_pos[2] < rect[2] + rect[4]

(***************************************************************************)
(* ParticlePool, lines 156-191.  A slot is [active, life].                 *)
(***************************************************************************)
EmitCount == 8
FullLife == 255
LifeStep == 8

NewPool == [i \in 1..PoolSize |-> [active |-> FALSE, life |-> 0]]

\* Slots the scan of emit() claims: the loop runs over the pool in order and
\* breaks once emitted >= count, a test made only after a slot was claimed.
RECURSIVE EmitScan(_, _, _, _)
EmitScan(p, i, emitted, count) ==
  IF i > Len(p) THEN p
  ELSE IF ~p[i].active
       THEN LET q == [p EXCEPT ![i] = [active |-> TRUE, life |-> FullLife]]
            IN IF emitted + 1 >= count THEN q ELSE EmitScan(q, i + 1, emitted + 1, count)
       ELSE EmitScan(p, i + 1, emitted, count)

emit(p, count) == EmitScan(p, 1, 0, count)

\* Variant of update_and_draw: a particle is deactivated one update later.
update_and_draw_late(p) ==
  [i \in 1..Len(p) |->
     IF p[i].active
     THEN [active |-> (p[i].life - LifeStep > 0 - LifeStep), life |-> p[i].life - LifeStep]
     ELSE p[i]]

update_and_draw(p) ==
  [i \in 1..Len(p) |->
     IF p[i].active
     THEN [active |-> (p[i].life - LifeStep > 0), life |-> p[i].life - LifeStep]
     ELSE p[i]]

ActiveSlots(p) == {i \in 1..Len(p) : p[i].active}

(***************************************************************************)
(* Terrain, lines 194-224.  grid maps <<x, y>> to <<tile_id, durability>>. *)
(***************************************************************************)
Choices == <<DIRT, ROCK, BRONZE, SILVER, GOLD, DIAMOND>>

Max(a, b) == IF a >= b THEN a ELSE b

\* Outcomes of random.choices explored: every kind has a positive weight at
\* every depth, so any row of kinds can be drawn.  The generator's state at
\* start-up, o, fixes every draw of the run: column x of row y gets the kind
\* Choices[(x + o + 3 (y - 10)) mod 6]; rows below SampleDepth, which the mole
\* is driven into only in SpecDescent, are drawn all Dirt.  AllDirt is the
\* start-up state for which every draw is Dirt.
SampleOffsets == {0, 3}
SampleDepth == MaxDepth
AllDirt == 0 - 1

\* The sampling weights, in hundredths.  ORE_CONFIG, lines 22-26: base and
\* scale of each kind in hundredths (scale 0.05 is 5).
ORE_CONFIG ==
  [ROCK |-> [base |-> 1000, scale |-> 5],
   BRONZE |-> [base |-> 1500, scale |-> 0 - 10],
   SILVER |-> [base |-> 800, scale |-> 0 - 5],
   GOLD |-> [base |-> 300, scale |-> 15],
   DIAMOND |-> [base |-> 100, scale |-> 10]]

\* weights = [71, 10, 8, 4, 1, 1], line 206, in hundredths
BaseWeights == <<7100, 1000, 800, 400, 100, 100>>

Scaled(kind, scaled_depth) == ORE_CONFIG[kind].base + scaled_depth * ORE_CONFIG[kind].scale

\* Variant of Weights: the depth scaling is left out.
Weights_unscaled(y_depth) == BaseWeights

\* lines 206-214: the weights generate_row samples row y_depth with
Weights(y_depth) ==
  LET scaled_depth == Max(0, y_depth - 20)
      rock == Max(500, Scaled("ROCK", scaled_depth))
      bronze == Max(100, Scaled("BRONZE", scaled_depth))
      silver == Max(100, Scaled("SILVER", scaled_depth))
      gold == Scaled("GOLD", scaled_depth)
      diamond == Scaled("DIAMOND", scaled_depth)
  IN IF scaled_depth > 0
     THEN <<Max(1000, 10000 - (rock + bronze + silver + gold + diamond)),
            rock, bronze, silver, gold, diamond>>
     ELSE BaseWeights

\* random.choices draws only a kind whose weight is positive.
RandomChoice(o, x, y_depth) ==
  LET i == ((x + o + 3 * (y_depth - 10)) % 6) + 1
  IN IF o # AllDirt /\ y_depth <= SampleDepth /\ Weights(y_depth)[i] > 0
     THEN Choices[i]
     ELSE DIRT

SafeShaft == 10

\* Variant of GeneratedTile: below the safe shaft the middle column is
\* generated as open cave.
GeneratedTile_caves(o, x, y_depth) ==
  IF y_depth < SafeShaft THEN <<DIRT, DURABILITY(DIRT)>>
  ELSE IF x = COLS \div 2 THEN <<EMPTY, 0>>
  ELSE <<RandomChoice(o, x, y_depth), DURABILITY(RandomChoice(o, x, y_depth))>>

\* Variant of GeneratedTile: the safe shaft ends one row early.
GeneratedTile_shortShaft(o, x, y_depth) ==
  IF y_depth < SafeShaft - 1 THEN <<DIRT, DURABILITY(DIRT)>>
  ELSE <<RandomChoice(o, x, y_depth + 1), DURABILITY(RandomChoice(o, x, y_depth + 1))>>

\* The cell generate_row stores at <<x, y_depth>>, lines 201-218
GeneratedTile(o, x, y_depth) ==
  IF y_depth < SafeShaft THEN <<DIRT, DURABILITY(DIRT)>>
  ELSE <<RandomChoice(o, x, y_depth), DURABILITY(RandomChoice(o, x, y_depth))>>

\* Variant of generate_row: the row is drawn again when it exists.
generate_row_again(g, y_depth, o) ==
  [c \in DOMAIN g \cup {<<x, y_depth>> : x \in 0..(COLS - 1)} |->
     IF c[2] = y_depth THEN GeneratedTile(o, c[1], y_depth) ELSE g[c]]

generate_row(g, y_depth, o) ==
  IF <<0, y_depth>> \in DOMAIN g THEN g
  ELSE [c \in DOMAIN g \cup {<<x, y_depth>> : x \in 0..(COLS - 1)} |->
          IF c \in DOMAIN g THEN g[c] ELSE GeneratedTile(o, c[1], y_depth)]

RECURSIVE GenerateRows(_, _, _, _)
GenerateRows(g, y, target_y, o) ==
  IF y > target_y THEN g
  ELSE GenerateRows(generate_row(g, y, o), y + 1, target_y, o)

\* Variant of ensure_generated: the frontier is set to the target even when
\* the target is not above it.
ensure_generated_reset(t, target_y, o) ==
  [grid |-> GenerateRows(t.grid, t.highest_y_generated + 1, target_y, o),
   highest_y_generated |-> target_y]

\* Variant of ensure_generated: when rows are missing, the whole map is drawn
\* again from row 0.
ensure_generated_afresh(t, target_y, o) ==
  IF target_y > t.highest_y_generated
  THEN [grid |-> GenerateRows(<<>>, 0, target_y, o),
        highest_y_generated |-> target_y]
  ELSE t

\* ensure_generated on the pair [grid, highest_y_generated]
ensure_generated(t, target_y, o) ==
  IF target_y > t.highest_y_generated
  THEN [grid |-> GenerateRows(t.grid, t.highest_y_generated + 1, target_y, o),
        highest_y_generated |-> target_y]
  ELSE t

\* Terrain(): an empty grid, nothing generated
NewTerrain == [grid |-> <<>>, highest_y_generated |-> -1]

(***************************************************************************)
(* GridMole, lines 109-117                                                 *)
(***************************************************************************)
GridMole(start_x, start_y) ==
  [grid_x |-> start_x, grid_y |-> start_y, can_move_timer |-> 0,
   state |-> "IDLE", facing_right |-> TRUE]

\* GameSession.inventory, line 73
NewInventory == [ore \in Ores |-> 0]

\* Variant of Ready: the cooldown is not read.
Ready_always(timer) == TRUE

\* if mole.can_move_timer <= 0, lines 358 and 422: input is accepted
Ready(timer) == timer <= 0

\* Variant of Direction: the vertical keys are tested before the horizontal.
Direction_vertical(keys) ==
  IF "D" \in keys THEN <<0, 1>>
  ELSE IF "U" \in keys THEN <<0, -1>>
  ELSE IF "L" \in keys THEN <<-1, 0>>
  ELSE IF "R" \in keys THEN <<1, 0>>
  ELSE <<0, 0>>

\* The key chain of lines 359-366 and 423-430: <<dx, dy>> of the first of
\* left, right, down, up that is pressed.
Direction(keys) ==
  IF "L" \in keys THEN <<-1, 0>>
  ELSE IF "R" \in keys THEN <<1, 0>>
  ELSE IF "D" \in keys THEN <<0, 1>>
  ELSE IF "U" \in keys THEN <<0, -1>>
  ELSE <<0, 0>>

\* facing_right after the key chain: set only by the left and right branches
Facing(keys, old) ==
  IF "L" \in keys THEN FALSE ELSE IF "R" \in keys THEN TRUE ELSE old

\* Variant of MoveState: every move ends crawling.
MoveState_crawl(dx, dy) == "CRAWLING"

\* 'CRAWLING' if dy < 0 or dx != 0 else 'IDLE', lines 374, 439, 450
MoveState(dx, dy) == IF dy < 0 \/ dx # 0 THEN "CRAWLING" ELSE "IDLE"

MoveInterval == 150
EnterInterval == 300
DigBase == 250
DigBonus == 20
DigMin == 50

\* Variant of DigCooldown: the shovel's level is not read.
DigCooldown_flat(shovel_level) == Max(DigMin, DigBase - DigBonus)

\* Variant of DigCooldown: the floor is left out.
DigCooldown_noFloor(shovel_level) == DigBase - shovel_level * DigBonus

\* max(50, 250 - (session.shovel_level * 20)), line 452
DigCooldown(shovel_level) == Max(DigMin, DigBase - shovel_level * DigBonus)

(***************************************************************************)
(* Camera, line 462.  camera_y is a float in the source; here it is an     *)
(* integer number of 1/CamScale pixels and the product with 0.1 is rounded *)
(* to the nearest unit.                                                    *)
(***************************************************************************)
Tenth(d) == IF d >= 0 THEN (d + 5) \div 10 ELSE -((5 - d) \div 10)

CameraTarget(grid_y) == Max(0, grid_y * TILE_SIZE - HEIGHT \div 3) * CamScale

\* Variant of CameraFollow: the camera moves by eleven tenths of the distance.
CameraFollow_overshoot(cam, grid_y) ==
  cam + (CameraTarget(grid_y) - cam) + Tenth(CameraTarget(grid_y) - cam)

CameraFollow(cam, grid_y) == cam + Tenth(CameraTarget(grid_y) - cam)

LookAhead == 10

\* Variant of GenerateTarget: the height of the screen is left out.
GenerateTarget_noScreen(cam) == (cam \div (TILE_SIZE * CamScale)) + LookAhead

\* int((camera_y + HEIGHT) // TILE_SIZE) + 10, line 463
GenerateTarget(cam) == ((cam + HEIGHT * CamScale) \div (TILE_SIZE * CamScale)) + LookAhead

(***************************************************************************)
(* The state after lines 270-322, for the outcome o of the random draws    *)
(* made by terrain.ensure_generated(ROWS + 5).                             *)
(***************************************************************************)
StartDepth == 5

Construct(o) ==
  LET t == ensure_generated(NewTerrain, ROWS + 5, o)
      ug == GridMole(COLS \div 2, StartDepth)
  IN [global_state |-> "OVERWORLD",
      overworld_substate |-> "WALK",
      show_inventory |-> FALSE,
      mouse_was_pressed |-> FALSE,
      ow_mole |-> GridMole(spawn_pos[1], spawn_pos[2]),
      ug_mole |-> ug,
      grid |-> [c \in DOMAIN t.grid |->
                  IF c = <<ug.grid_x, ug.grid_y>> THEN <<EMPTY, 0>> ELSE t.grid[c]],
      highest_y_generated |-> t.highest_y_generated,
      camera_y |-> 0,
      pool |-> NewPool,
      inventory |-> NewInventory,
      money |-> 0,
      shovel_level |-> 1,
      has_torch |-> FALSE,
      torch_pos |-> MapPos("t"),
      seed |-> o,
      crashed |-> FALSE,
      branch |-> "start",
      hits |-> <<>>]

None == <<>>

(***************************************************************************)
(* The overworld pipeline, lines 354-416                                   *)
(***************************************************************************)
\* lines 372-374 and 437-439: step into the target cell
MoveStep(m, tx, ty, d) ==
  [m EXCEPT !.grid_x = tx, !.grid_y = ty, !.can_move_timer = MoveInterval,
            !.state = MoveState(d[1], d[2])]

\* Variant of BlockedStep: the refused input restarts the cooldown.
BlockedStep_reset(m) == [m EXCEPT !.state = "IDLE", !.can_move_timer = MoveInterval]

\* lines 376, 455 and 457: the target cannot be entered
BlockedStep(m) == [m EXCEPT !.state = "IDLE"]

\* lines 378 and 459: no direction this frame
NoInput(m) == IF Ready(m.can_move_timer) THEN [m EXCEPT !.state = "IDLE"] ELSE m

\* lines 356-378: the hub mole's move
WalkMole(m, dt, keys) ==
  LET timer == m.can_move_timer - dt
      d == IF Ready(timer) THEN Direction(keys) ELSE <<0, 0>>
      facing == IF Ready(timer) THEN Facing(keys, m.facing_right) ELSE m.facing_right
      tx == m.grid_x + d[1]
      ty == m.grid_y + d[2]
      m1 == [m EXCEPT !.can_move_timer = timer, !.facing_right = facing]
  IN IF d # <<0, 0>>
     THEN IF OwGet(tx, ty) \in {".", "S"}
          THEN MoveStep(m1, tx, ty, d)
          ELSE BlockedStep(m1)
     ELSE NoInput(m1)

WalkBranch(m, dt, keys) ==
  LET timer == m.can_move_timer - dt
      d == IF Ready(timer) THEN Direction(keys) ELSE <<0, 0>>
  IN IF d # <<0, 0>>
     THEN IF OwGet(m.grid_x + d[1], m.grid_y + d[2]) \in {".", "S"}
          THEN "ow_move" ELSE "ow_blocked"
     ELSE IF Ready(timer) THEN "ow_idle" ELSE "ow_wait"

\* lines 355-396
OverworldWalk(s, in, clicked) ==
  LET m == WalkMole(s.ow_mole, in.dt, in.keys)
      s1 == [s EXCEPT !.ow_mole = m, !.branch = WalkBranch(s.ow_mole, in.dt, in.keys)]
  IN IF Near(m.grid_x, m.grid_y, orpheus_pos) /\ clicked
        /\ is_clicked(btn_talk, in.pos, in.pressed)
     THEN [s1 EXCEPT !.overworld_substate = "DIALOGUE"]
     ELSE IF Near(m.grid_x, m.grid_y, hole_pos) /\ clicked
             /\ is_clicked(btn_mine, in.pos, in.pressed)
     THEN [s1 EXCEPT !.global_state = "UNDERGROUND",
                     !.ug_mole.can_move_timer = EnterInterval]
     ELSE IF (s.torch_pos # None /\ Near(m.grid_x, m.grid_y, s.torch_pos))
             /\ ~s.has_torch /\ clicked
             /\ is_clicked(btn_torch, in.pos, in.pressed)
     THEN [s1 EXCEPT !.has_torch = TRUE, !.torch_pos = None]
     ELSE s1

\* lines 398-400
OverworldDialogue(s, in, clicked) ==
  IF clicked /\ is_clicked(btn_open_shop, in.pos, in.pressed)
  THEN [s EXCEPT !.overworld_substate = "SHOP", !.branch = "menu"]
  ELSE [s EXCEPT !.branch = "menu"]

\* prices, line 407
Price(ore) ==
  CASE ore = BRONZE -> 10 [] ore = SILVER -> 25 [] ore = GOLD -> 100 [] ore = DIAMOND -> 500

Earned(inventory) ==
  inventory[BRONZE] * Price(BRONZE) + inventory[SILVER] * Price(SILVER)
  + inventory[GOLD] * Price(GOLD) + inventory[DIAMOND] * Price(DIAMOND)

ShovelCost == 100

\* lines 402-416
OverworldShop(s, in, clicked) ==
  LET s1 == [s EXCEPT !.branch = "menu"]
  IN IF ~clicked THEN s1
     ELSE IF is_clicked(btn_close_shop, in.pos, in.pressed)
     THEN [s1 EXCEPT !.overworld_substate = "WALK"]
     ELSE IF is_clicked(btn_sell_all, in.pos, in.pressed)
     THEN [s1 EXCEPT !.money = s.money + Earned(s.inventory),
                     !.inventory = NewInventory]
     ELSE IF is_clicked(btn_buy_shovel, in.pos, in.pressed)
             /\ s.money >= ShovelCost * s.shovel_level
     THEN [s1 EXCEPT !.money = s.money - ShovelCost * s.shovel_level,
                     !.shovel_level = s.shovel_level + 1]
     ELSE s1

(***************************************************************************)
(* The underground pipeline, lines 419-467                                 *)
(***************************************************************************)
\* terrain.grid.get((tx, ty), [DIRT, 1]), line 435
TileAt(g, tx, ty) == IF <<tx, ty>> \in DOMAIN g THEN g[<<tx, ty>>] ELSE <<DIRT, 1>>

\* Variant of InBounds: rows above the surface are let through.
InBounds_noTop(tx, ty) == 0 <= tx /\ tx < COLS

\* 0 <= tx < COLS and ty >= 0, line 434
InBounds(tx, ty) == 0 <= tx /\ tx < COLS /\ ty >= 0

\* Variant of Diggable: Rock is dug like any other tile.
Diggable_any(tile_id) == TRUE

\* elif tile_data[0] != ROCK, line 440
Diggable(tile_id) == tile_id # ROCK

\* Variant of Destroyed: the tile goes one hit late.
Destroyed_late(durability) == durability < 0

\* line 443: the hit left no durability
Destroyed(durability) == durability <= 0

\* The path lines 432-459 take: which branch of the move / dig chain runs.
\* "keyerror" is line 442 indexing terrain.grid with a key that get() only
\* defaulted: the subscript raises and the program stops.
DigBranch(s, in) ==
  LET timer == s.ug_mole.can_move_timer - in.dt
      d == IF Ready(timer) THEN Direction(in.keys) ELSE <<0, 0>>
      tx == s.ug_mole.grid_x + d[1]
      ty == s.ug_mole.grid_y + d[2]
      tile_data == TileAt(s.grid, tx, ty)
  IN IF d = <<0, 0>> THEN (IF Ready(timer) THEN "idle" ELSE "wait")
     ELSE IF ~InBounds(tx, ty) THEN "oob"
     ELSE IF tile_data[1] = EMPTY THEN "move"
     ELSE IF ~Diggable(tile_data[1]) THEN "rock"
     ELSE IF <<tx, ty>> \notin DOMAIN s.grid THEN "keyerror"
     ELSE IF Destroyed(tile_data[2] - 1) THEN "destroy"
     ELSE "dig"

\* History: one more accepted mining hit on cell c.
Hit(h, c) ==
  [k \in DOMAIN h \cup {c} |-> IF k = c THEN (IF c \in DOMAIN h THEN h[c] + 1 ELSE 1)
                               ELSE h[k]]

\* Variant of DestroyStep: the destroying hit ends in the mining state.
DestroyStep_mining(m, tx, ty, d) ==
  [m EXCEPT !.grid_x = tx, !.grid_y = ty, !.can_move_timer = MoveInterval,
            !.state = "MINING"]

\* Variant of DestroyStep: the mole keeps the dig cooldown it would get from
\* a hit the tile survives.
DestroyStep_slow(m, tx, ty, d) ==
  [m EXCEPT !.grid_x = tx, !.grid_y = ty, !.can_move_timer = DigBase - DigBonus,
            !.state = MoveState(d[1], d[2])]

\* lines 448-450: the hit destroyed the tile, the mole steps into it
DestroyStep(m, tx, ty, d) ==
  [m EXCEPT !.grid_x = tx, !.grid_y = ty, !.can_move_timer = MoveInterval,
            !.state = MoveState(d[1], d[2])]

\* lines 452-453: the tile survived the hit
DigStep(m, shovel_level) ==
  [m EXCEPT !.can_move_timer = DigCooldown(shovel_level), !.state = "MINING"]

\* line 444: the inventory after a tile of kind tile_id was destroyed
Credit(inventory, tile_id) ==
  IF tile_id \in DOMAIN inventory
  THEN [inventory EXCEPT ![tile_id] = @ + 1]
  ELSE inventory

\* lines 420-459
MoveOrDig(s, in) ==
  LET m == s.ug_mole
      timer == m.can_move_timer - in.dt
      d == IF Ready(timer) THEN Direction(in.keys) ELSE <<0, 0>>
      facing == IF Ready(timer) THEN Facing(in.keys, m.facing_right) ELSE m.facing_right
      tx == m.grid_x + d[1]
      ty == m.grid_y + d[2]
      tile_data == TileAt(s.grid, tx, ty)
      b == DigBranch(s, in)
      m1 == [m EXCEPT !.can_move_timer = timer, !.facing_right = facing]
      s1 == [s EXCEPT !.branch = b]
  IN CASE b \in {"idle", "wait"} -> [s1 EXCEPT !.ug_mole = NoInput(m1)]
       [] b \in {"oob", "rock"} -> [s1 EXCEPT !.ug_mole = BlockedStep(m1)]
       [] b = "move" -> [s1 EXCEPT !.ug_mole = MoveStep(m1, tx, ty, d)]
       [] b = "keyerror" -> [s1 EXCEPT !.ug_mole = m1, !.crashed = TRUE]
       [] b = "destroy" ->
            [s1 EXCEPT !.ug_mole = DestroyStep(m1, tx, ty, d),
                       !.hits = Hit(s.hits, <<tx, ty>>),
                       !.grid[<<tx, ty>>] = <<EMPTY, tile_data[2] - 1>>,
                       !.inventory = Credit(s.inventory, tile_data[1]),
                       !.pool = emit(s.pool, EmitCount)]
       [] b = "dig" ->
            [s1 EXCEPT !.ug_mole = DigStep(m1, s.shovel_level),
                       !.hits = Hit(s.hits, <<tx, ty>>),
                       !.grid[<<tx, ty>>] = <<tile_data[1], tile_data[2] - 1>>]

\* lines 462-463: camera follow, then the look-ahead generation
CameraAndGenerate(s) ==
  LET cam == CameraFollow(s.camera_y, s.ug_mole.grid_y)
      t == ensure_generated([grid |-> s.grid,
                             highest_y_generated |-> s.highest_y_generated],
                            GenerateTarget(cam), s.seed)
  IN [s EXCEPT !.camera_y = cam, !.grid = t.grid,
               !.highest_y_generated = t.highest_y_generated]

\* Variant of SurfaceButton: leaving the mine builds the terrain and the
\* particle pool anew.
SurfaceButton_discard(s, in, clicked) ==
  IF clicked /\ is_clicked(btn_surface, in.pos, in.pressed)
  THEN LET t == ensure_generated(NewTerrain, ROWS + 5, s.seed)
       IN [s EXCEPT !.global_state = "OVERWORLD",
                    !.ow_mole.can_move_timer = EnterInterval,
                    !.grid = [c \in DOMAIN t.grid |->
                                IF c = <<COLS \div 2, StartDepth>> THEN <<EMPTY, 0>>
                                ELSE t.grid[c]],
                    !.highest_y_generated = t.highest_y_generated,
                    !.pool = NewPool]
  ELSE s

\* lines 465-467
SurfaceButton(s, in, clicked) ==
  IF clicked /\ is_clicked(btn_surface, in.pos, in.pressed)
  THEN [s EXCEPT !.global_state = "OVERWORLD", !.ow_mole.can_move_timer = EnterInterval]
  ELSE s

Underground(s, in, clicked) ==
  LET s1 == MoveOrDig(s, in)
  IN IF s1.crashed THEN s1
     ELSE SurfaceButton(CameraAndGenerate(s1), in, clicked)

(***************************************************************************)
(* One iteration of the main loop, lines 326-612                           *)
(***************************************************************************)
\* lines 333-340: the ESC key
EscapeKey(s, in) ==
  IF ~in.esc THEN s
  ELSE IF s.show_inventory THEN [s EXCEPT !.show_inventory = FALSE]
  ELSE IF s.overworld_substate \in {"DIALOGUE", "SHOP"}
  THEN [s EXCEPT !.overworld_substate = "WALK"]
  ELSE s

\* lines 342-348: the inventory overlay's buttons
InventoryButtons(s, in, clicked) ==
  IF s.show_inventory
  THEN IF clicked /\ is_clicked(btn_close_inv, in.pos, in.pressed)
       THEN [s EXCEPT !.show_inventory = FALSE] ELSE s
  ELSE IF clicked /\ is_clicked(btn_inv_toggle, in.pos, in.pressed)
          /\ s.overworld_substate \notin {"DIALOGUE", "SHOP"}
       THEN [s EXCEPT !.show_inventory = TRUE] ELSE s

\* Variant of Update: the pipelines run whether the overlay is shown or not.
Update_unpaused(s, in, clicked) ==
  IF s.global_state = "OVERWORLD"
  THEN CASE s.overworld_substate = "WALK" -> OverworldWalk(s, in, clicked)
         [] s.overworld_substate = "DIALOGUE" -> OverworldDialogue(s, in, clicked)
         [] s.overworld_substate = "SHOP" -> OverworldShop(s, in, clicked)
  ELSE Underground(s, in, clicked)

\* lines 352-467
Update(s, in, clicked) ==
  IF s.show_inventory THEN [s EXCEPT !.branch = "paused"]
  ELSE IF s.global_state = "OVERWORLD"
  THEN CASE s.overworld_substate = "WALK" -> OverworldWalk(s, in, clicked)
         [] s.overworld_substate = "DIALOGUE" -> OverworldDialogue(s, in, clicked)
         [] s.overworld_substate = "SHOP" -> OverworldShop(s, in, clicked)
  ELSE Underground(s, in, clicked)

\* lines 568-572: the particle pool is updated when the underground is drawn
Render(s) ==
  IF s.global_state = "UNDERGROUND" /\ ~s.crashed
  THEN [s EXCEPT !.pool = update_and_draw(s.pool)]
  ELSE s

Frame(s, in) ==
  LET clicked == in.pressed /\ ~s.mouse_was_pressed
      s1 == [s EXCEPT !.mouse_was_pressed = in.pressed]
      s2 == InventoryButtons(EscapeKey(s1, in), in, clicked)
  IN Render(Update(s2, in, clicked))

(***************************************************************************)
(* Inputs of a frame: the elapsed time clock.tick returns, the keys held,  *)
(* the mouse button and position, and an ESC key-down event.               *)
(***************************************************************************)
DtValues == {150, 300}

KeySets == {{}, {"L"}, {"R"}, {"D"}, {"U"}, {"L", "R"}, {"R", "D"}, {"D", "U"}}

\* Mouse positions: one inside each button, one inside both the "Enter Mine"
\* and the overlay's "Close" button, whose rectangles overlap, and one
\* inside no button.
P_inv == <<50, 25>>
P_surface == <<550, 15>>
P_close_shop == <<540, 50>>
P_talk == <<190, 450>>
P_mine == <<380, 450>>
P_mine_close == <<300, 435>>
P_close_inv == <<300, 410>>
P_torch == <<470, 450>>
P_open_shop == <<550, 400>>
P_sell == <<160, 260>>
P_buy == <<480, 260>>
P_nowhere == <<5, 200>>

Input(dt, keys, pressed, pos, esc) ==
  [dt |-> dt, keys |-> keys, pressed |-> pressed, pos |-> pos, esc |-> esc]

\* Keys alone; the mouse button pressed at one of the positions pts, alone or
\* with a key held; ESC, alone or with a key held.
InputsAt(pts) ==
  {Input(dt, keys, FALSE, P_nowhere, FALSE) : dt \in DtValues, keys \in KeySets}
  \cup {Input(150, keys, TRUE, pos, FALSE) : keys \in {{}, {"D"}}, pos \in pts}
  \cup {Input(150, keys, FALSE, P_nowhere, TRUE) : keys \in {{}, {"D"}}}

\* The buttons a frame reads depend on the mode it starts in; a press on any
\* other button acts as a press at P_nowhere.
OverlayInputs == InputsAt({P_close_inv, P_mine_close, P_nowhere})
WalkInputs == InputsAt({P_inv, P_talk, P_mine, P_torch, P_nowhere})
DialogueInputs == InputsAt({P_inv, P_open_shop})
ShopInputs == InputsAt({P_inv, P_close_shop, P_sell, P_buy})
UndergroundInputs == InputsAt({P_inv, P_surface, P_nowhere})

Inputs == OverlayInputs \cup WalkInputs \cup DialogueInputs \cup ShopInputs
          \cup UndergroundInputs

(***************************************************************************)
(* State                                                                   *)
(***************************************************************************)
VARIABLES global_state, overworld_substate, show_inventory, mouse_was_pressed,
          ow_mole, ug_mole, grid, highest_y_generated, camera_y, pool,
          inventory, money, shovel_level, has_torch, torch_pos, seed,
          crashed, branch, hits, frameNo, dugNo

\* seed: the state of the random generator at start-up.
\* crashed: line 442 raised KeyError and the program stopped.
\* branch: the path the last frame took through the move / dig chain.
\* hits: history, the number of accepted mining hits each cell has taken.
\* frameNo, dugNo: frames run and tiles destroyed since the starting state.

progVars == <<global_state, overworld_substate, show_inventory, mouse_was_pressed,
              ow_mole, ug_mole, grid, highest_y_generated, camera_y, pool,
              inventory, money, shovel_level, has_torch, torch_pos, seed,
              crashed, branch, hits>>

vars == <<progVars, frameNo, dugNo>>

Cur ==
  [global_state |-> global_state, overworld_substate |-> overworld_substate,
   show_inventory |-> show_inventory, mouse_was_pressed |-> mouse_was_pressed,
   ow_mole |-> ow_mole, ug_mole |-> ug_mole, grid |-> grid,
   highest_y_generated |-> highest_y_generated, camera_y |-> camera_y,
   pool |-> pool, inventory |-> inventory, money |-> money,
   shovel_level |-> shovel_level, has_torch |-> has_torch, torch_pos |-> torch_pos,
   seed |-> seed, crashed |-> crashed, branch |-> branch, hits |-> hits]

\* The program's variables are those of record s.
Is(s) ==
  /\ global_state = s.global_state
  /\ overworld_substate = s.overworld_substate
  /\ show_inventory = s.show_inventory
  /\ mouse_was_pressed = s.mouse_was_pressed
  /\ ow_mole = s.ow_mole
  /\ ug_mole = s.ug_mole
  /\ grid = s.grid
  /\ highest_y_generated = s.highest_y_generated
  /\ camera_y = s.camera_y
  /\ pool = s.pool
  /\ inventory = s.inventory
  /\ money = s.money
  /\ shovel_level = s.shovel_level
  /\ has_torch = s.has_torch
  /\ torch_pos = s.torch_pos
  /\ seed = s.seed
  /\ crashed = s.crashed
  /\ branch = s.branch
  /\ hits = s.hits

\* The program's variables after the step are those of record s.
Becomes(s) ==
  /\ global_state' = s.global_state
  /\ overworld_substate' = s.overworld_substate
  /\ show_inventory' = s.show_inventory
  /\ mouse_was_pressed' = s.mouse_was_pressed
  /\ ow_mole' = s.ow_mole
  /\ ug_mole' = s.ug_mole
  /\ grid' = s.grid
  /\ highest_y_generated' = s.highest_y_generated
  /\ camera_y' = s.camera_y
  /\ pool' = s.pool
  /\ inventory' = s.inventory
  /\ money' = s.money
  /\ shovel_level' = s.shovel_level
  /\ has_torch' = s.has_torch
  /\ torch_pos' = s.torch_pos
  /\ seed' = s.seed
  /\ crashed' = s.crashed
  /\ branch' = s.branch
  /\ hits' = s.hits

(***************************************************************************)
(* Starting states: the constructed state, and states the program reaches  *)
(* from it, computed by running Frame over an input sequence.              *)
(***************************************************************************)
RECURSIVE Run(_, _)
Run(s, script) ==
  IF script = <<>> \/ s.crashed THEN s ELSE Run(Frame(s, Head(script)), Tail(script))

Key(k, dt) == Input(dt, {k}, FALSE, P_nowhere, FALSE)
Click(pos, dt) == Input(dt, {}, TRUE, pos, FALSE)
Rest(dt) == Input(dt, {}, FALSE, P_nowhere, FALSE)

Repeat(in, n) == [i \in 1..n |-> in]

\* Step left beside the hole and press "Enter Mine".
EnterMine == <<Key("L", 150), Click(P_mine, 150)>>

\* Dig a shaft of n tiles in direction k through one-hit tiles.
Shaft(k, n) == <<Key(k, 300)>> \o Repeat(Key(k, 150), n - 1)

\* Having dug down to row 9, just above the first drawn row.
ToRow9 == EnterMine \o Shaft("D", 4)

\* Having dug up to row 0.
ToRow0 == EnterMine \o Shaft("U", 5)

\* At row 9 of column c, then n hits on the tile below.
HitsBelow(k, n) ==
  ToRow9 \o (IF k = "D" THEN <<>> ELSE <<Key(k, 150)>>) \o Repeat(Key("D", 300), n)

\* With start-up state 3 the tile below the shaft is Gold: mine it, return
\* to the surface, walk to Orpheus, open the shop and sell.
SellGold ==
  HitsBelow("D", DURABILITY(GOLD))
  \o <<Click(P_surface, 150), Key("U", 300)>> \o Repeat(Key("U", 150), 4)
  \o <<Key("R", 150), Key("U", 150), Click(P_talk, 150), Rest(150),
       Click(P_open_shop, 150), Rest(150), Click(P_sell, 150)>>

\* Then buy the shovel, walk back and enter the mine again.
BuyAndReturn ==
  SellGold
  \o <<Rest(150), Click(P_buy, 150), Rest(150), Click(P_close_shop, 150),
       Key("D", 150), Key("L", 150)>>
  \o Repeat(Key("D", 150), 3) \o <<Click(P_mine, 150)>>

Scripts(o) ==
  {<<>>, EnterMine, ToRow9, ToRow0}
  \cup (IF o = 3
        THEN {HitsBelow("D", DURABILITY(GOLD) - 2),
              HitsBelow("R", DURABILITY(DIAMOND) - 2),
              HitsBelow("L", DURABILITY(SILVER) - 2),
              SellGold, BuyAndReturn}
        ELSE {HitsBelow("R", DURABILITY(BRONZE) - 2)})

StartStates == UNION {{Run(Construct(o), script) : script \in Scripts(o)} : o \in SampleOffsets}

Init ==
  /\ \E s \in StartStates : Is(s)
  /\ frameNo = 0
  /\ dugNo = 0

(***************************************************************************)
(* Actions: one frame, by the mode the frame starts in                     *)
(***************************************************************************)
Abs(n) == IF n < 0 THEN -n ELSE n

\* The frames explored: within the bounds of the model.
Within(n) ==
  /\ frameNo < MaxFrames
  /\ n.ug_mole.grid_y <= MaxDepth
  /\ n.ug_mole.can_move_timer >= -TimerSlack
  /\ n.ow_mole.can_move_timer >= -TimerSlack
  /\ Abs(n.ow_mole.grid_x - spawn_pos[1]) <= HubReach
  /\ n.branch = "destroy" => dugNo < MaxDug

Step(in) ==
  LET n == Frame(Cur, in)
  IN /\ ~crashed
     /\ Within(n)
     /\ Becomes(n)
     /\ frameNo' = frameNo + 1
     /\ dugNo' = IF n.branch = "destroy" THEN dugNo + 1 ELSE dugNo

FrameOverlay == show_inventory /\ \E in \in OverlayInputs : Step(in)

FrameWalk ==
  /\ ~show_inventory /\ global_state = "OVERWORLD" /\ overworld_substate = "WALK"
  /\ \E in \in WalkInputs : Step(in)

FrameDialogue ==
  /\ ~show_inventory /\ global_state = "OVERWORLD" /\ overworld_substate = "DIALOGUE"
  /\ \E in \in DialogueInputs : Step(in)

FrameShop ==
  /\ ~show_inventory /\ global_state = "OVERWORLD" /\ overworld_substate = "SHOP"
  /\ \E in \in ShopInputs : Step(in)

FrameUnderground ==
  /\ ~show_inventory /\ global_state = "UNDERGROUND"
  /\ \E in \in UndergroundInputs : Step(in)

Next == FrameOverlay \/ FrameWalk \/ FrameDialogue \/ FrameShop \/ FrameUnderground

Spec == Init /\ [][Next]_vars

(***************************************************************************)
(* The long descent: the states the fastest descent passes through, one    *)
(* row a frame from the mine's entrance through terrain drawn all Dirt     *)
(* down to DescentDepth, where the camera lags the most; and from each of  *)
(* them MaxFrames frames of any input, with returns to the surface and the *)
(* overlay in between.                                                     *)
(***************************************************************************)
DescentKeys == {{}, {"D"}, {"U"}, {"R"}}

\* A short frame besides those of DtValues.
DescentDt == DtValues \cup {50}

DescentInputs ==
  {Input(dt, keys, FALSE, P_nowhere, FALSE) : dt \in DescentDt, keys \in DescentKeys}
  \cup {Click(P_surface, 150), Click(P_inv, 150)}

SurfaceInputs == {Rest(150), Click(P_mine, 150)}

PausedInputs ==
  {Rest(150), Click(P_close_inv, 150), Input(150, {"D"}, FALSE, P_nowhere, TRUE)}

Descent(n) == EnterMine \o (IF n = 0 THEN <<>> ELSE Shaft("D", n))

InitDescent ==
  /\ \E n \in 0..(DescentDepth - StartDepth) : Is(Run(Construct(AllDirt), Descent(n)))
  /\ frameNo = 0
  /\ dugNo = 0

WithinDescent(n) ==
  /\ frameNo < MaxFrames
  /\ n.ug_mole.grid_y <= DescentDepth
  /\ n.ug_mole.can_move_timer >= -TimerSlack
  /\ n.ow_mole.can_move_timer >= -TimerSlack

StepDescent(in) ==
  LET n == Frame(Cur, in)
  IN /\ ~crashed
     /\ WithinDescent(n)
     /\ Becomes(n)
     /\ frameNo' = frameNo + 1
     /\ UNCHANGED dugNo

DescentUnderground ==
  /\ ~show_inventory /\ global_state = "UNDERGROUND"
  /\ \E in \in DescentInputs : StepDescent(in)

DescentSurface ==
  /\ ~show_inventory /\ global_state = "OVERWORLD"
  /\ \E in \in SurfaceInputs : StepDescent(in)

DescentPaused == show_inventory /\ \E in \in PausedInputs : StepDescent(in)

NextDescent == DescentUnderground \/ DescentSurface \/ DescentPaused

SpecDescent == InitDescent /\ [][NextDescent]_vars

(***************************************************************************)
(* The particle pool on its own: emit() with any count and                 *)
(* update_and_draw() called in any order, from the new pool and from pools *)
(* the two calls produce in which some slots have expired again.           *)
(***************************************************************************)
\* Counts passed to emit(): none, a few, the default, more than the pool holds.
EmitCounts == {0, 1, 2, EmitCount, PoolSize + 1}

RECURSIVE Age(_, _)
Age(p, k) == IF k = 0 THEN p ELSE Age(update_and_draw(p), k - 1)

\* Updates after which a particle has one life step left.
NearExpiry == (FullLife - 1) \div LifeStep

\* Slots 1..3 expired again below two live particles.
PoolWithHoles == Age(emit(Age(emit(NewPool, 3), NearExpiry), 2), 1)

\* Every slot live.
PoolFull == emit(NewPool, PoolSize)

\* Slots 1 and 2 expired again, every other slot live.
PoolNearlyFull == Age(emit(Age(emit(NewPool, 2), NearExpiry), PoolSize), 1)

\* Two particles with one life step left.
PoolNearExpiry == Age(emit(NewPool, 2), NearExpiry)

StartPools == {NewPool, PoolWithHoles, PoolFull, PoolNearlyFull, PoolNearExpiry}

InitPool ==
  /\ \E p \in StartPools : Is([Construct(AllDirt) EXCEPT !.pool = p])
  /\ frameNo = 0
  /\ dugNo = 0

PoolCall(q) ==
  /\ frameNo < MaxPoolOps
  /\ pool' = q
  /\ frameNo' = frameNo + 1
  /\ UNCHANGED <<global_state, overworld_substate, show_inventory, mouse_was_pressed,
                 ow_mole, ug_mole, grid, highest_y_generated, camera_y, inventory,
                 money, shovel_level, has_torch, torch_pos, seed, crashed, branch,
                 hits, dugNo>>

PoolEmit == \E count \in EmitCounts : PoolCall(emit(pool, count))

PoolUpdate == PoolCall(update_and_draw(pool))

NextPool == PoolEmit \/ PoolUpdate

SpecPool == InitPool /\ [][NextPool]_vars

(***************************************************************************)
(* The terrain on its own: generate_row() and ensure_generated() called    *)
(* with any argument and any outcome of the random draws, on the empty     *)
(* terrain of line 315 and on the terrains of the starting states of Spec, *)
(* which hold damaged and emptied cells.                                   *)
(***************************************************************************)
DrawOutcomes == SampleOffsets \cup {AllDirt}

\* The state between lines 318 and 319: Terrain() constructed, no row yet.
EmptyTerrain ==
  [Construct(AllDirt) EXCEPT !.grid = NewTerrain.grid,
                             !.highest_y_generated = NewTerrain.highest_y_generated]

GenerateArgs ==
  {0, StartDepth, SafeShaft - 1, SafeShaft, SafeShaft + 1, highest_y_generated + 1}

EnsureArgs ==
  {0 - 1, SafeShaft - 1, SafeShaft + 1, highest_y_generated - 1, highest_y_generated,
   highest_y_generated + 1, highest_y_generated + 2}

InitTerrain ==
  /\ \E s \in StartStates \cup {EmptyTerrain} : Is(s)
  /\ frameNo = 0
  /\ dugNo = 0

\* branch records the call: generate_row on a new or on an existing row,
\* ensure_generated with a target above the frontier or not.
TerrainCall(t, call) ==
  /\ frameNo < MaxTerrainOps
  /\ grid' = t.grid
  /\ highest_y_generated' = t.highest_y_generated
  /\ branch' = call
  /\ frameNo' = frameNo + 1
  /\ UNCHANGED <<global_state, overworld_substate, show_inventory, mouse_was_pressed,
                 ow_mole, ug_mole, camera_y, pool, inventory, money, shovel_level,
                 has_torch, torch_pos, seed, crashed, hits, dugNo>>

CallGenerateRow ==
  \E y_depth \in GenerateArgs, o \in DrawOutcomes :
    TerrainCall([grid |-> generate_row(grid, y_depth, o),
                 highest_y_generated |-> highest_y_generated],
                IF <<0, y_depth>> \in DOMAIN grid THEN "row_exists" ELSE "row_new")

CallEnsureGenerated ==
  \E target_y \in EnsureArgs, o \in DrawOutcomes :
    TerrainCall(ensure_generated([grid |-> grid,
                                  highest_y_generated |-> highest_y_generated],
                                 target_y, o),
                IF target_y > highest_y_generated THEN "ensure_above" ELSE "ensure_below")

NextTerrain == CallGenerateRow \/ CallEnsureGenerated

SpecTerrain == InitTerrain /\ [][NextTerrain]_vars

(***************************************************************************)
(* Every shovel: the mole at the bottom of the safe shaft, above a Gold    *)
(* tile, with a shovel of any level up to MaxLevel (each level is bought   *)
(* for 100 times the level before it, lines 412-415), and MaxFrames frames *)
(* of any input from there.                                                *)
(***************************************************************************)
InitShovel ==
  /\ \E level \in 1..MaxLevel :
       Is([Run(Construct(3), ToRow9) EXCEPT !.shovel_level = level])
  /\ frameNo = 0
  /\ dugNo = 0

NextShovel == FrameOverlay \/ FrameWalk \/ FrameUnderground

SpecShovel == InitShovel /\ [][NextShovel]_vars

(***************************************************************************)
(* Deep rows: generate_row() called on the empty terrain of line 315 for   *)
(* rows down to MaxWeightDepth, where the weights are scaled by depth.     *)
(***************************************************************************)
InitDeep ==
  /\ Is(EmptyTerrain)
  /\ frameNo = 0
  /\ dugNo = 0

GenerateDeepRow ==
  \E y_depth \in 0..MaxWeightDepth, o \in DrawOutcomes :
    /\ frameNo < MaxDeepRows
    /\ <<0, y_depth>> \notin DOMAIN grid
    /\ grid' = generate_row(grid, y_depth, o)
    /\ branch' = "row_new"
    /\ frameNo' = frameNo + 1
    /\ UNCHANGED <<global_state, overworld_substate, show_inventory, mouse_was_pressed,
                   ow_mole, ug_mole, highest_y_generated, camera_y, pool, inventory,
                   money, shovel_level, has_torch, torch_pos, seed, crashed, hits,
                   dugNo>>

SpecDeep == InitDeep /\ [][GenerateDeepRow]_vars

(***************************************************************************)
(* The camera at rest: the mole has dug down n rows and climbed k rows     *)
(* back up its shaft, so that the camera lags its target from above or     *)
(* from below, and then no key is held, frame after frame.                 *)
(***************************************************************************)
Climb(n, k) == Descent(n) \o Repeat(Key("U", 150), k)

InitCamera ==
  /\ \E n \in 0..(DescentDepth - StartDepth) : \E k \in {0, n \div 2, n} :
       Is(Run(Construct(AllDirt), Climb(n, k)))
  /\ frameNo = 0
  /\ dugNo = 0

CameraSettle ==
  /\ ~crashed
  /\ frameNo < MaxSettleFrames
  /\ Becomes(Frame(Cur, Rest(150)))
  /\ frameNo' = frameNo + 1
  /\ UNCHANGED dugNo

SpecCamera == InitCamera /\ [][CameraSettle]_vars

(***************************************************************************)
(* Properties.  Each is stated over the current state and the frame the    *)
(* program would run from it on every input, so that the state before and  *)
(* the state after an operation are both in hand.                          *)
(***************************************************************************)
\* The underground pipeline runs in the frame on input in: the mine is the
\* active mode and the overlay is hidden once the frame's events are handled.
Plays(in) ==
  /\ global_state = "UNDERGROUND"
  /\ ~crashed
  /\ IF show_inventory
     THEN in.esc \/ (in.pressed /\ ~mouse_was_pressed
                     /\ is_clicked(btn_close_inv, in.pos, in.pressed))
     ELSE ~(in.pressed /\ ~mouse_was_pressed
            /\ is_clicked(btn_inv_toggle, in.pos, in.pressed))

\* The cooldown once the frame's elapsed time is subtracted.
TimerAfter(in) == ug_mole.can_move_timer - in.dt

\* The frame accepts a directional input.
Accepted(in) == Plays(in) /\ TimerAfter(in) <= 0 /\ Direction(in.keys) # <<0, 0>>

\* The cell the accepted input is directed at.
Target(in) ==
  <<ug_mole.grid_x + Direction(in.keys)[1], ug_mole.grid_y + Direction(in.keys)[2]>>

InRange(c) == c[1] >= 0 /\ c[1] < COLS /\ c[2] >= 0

\* The frame is a mining hit: an accepted input directed at a cell of the
\* map that is neither Empty nor Rock.
IsHit(in) ==
  /\ Accepted(in)
  /\ Target(in) \in DOMAIN grid
  /\ grid[Target(in)][1] \notin {EMPTY, ROCK}

\* Every cell the map holds is still there with the same content.
SameCells(n) == \A c \in DOMAIN grid : c \in DOMAIN n.grid /\ n.grid[c] = grid[c]

\* The pool was only aged by the frame's drawing, nothing was emitted.
NoEmission(n) ==
  n.pool = IF n.global_state = "UNDERGROUND" THEN update_and_draw(pool) ELSE pool

SamePlace(n) == n.ug_mole.grid_x = ug_mole.grid_x /\ n.ug_mole.grid_y = ug_mole.grid_y

At(n, c) == n.ug_mole.grid_x = c[1] /\ n.ug_mole.grid_y = c[2]

\* The kind a cell was generated with, and the hits it has taken.
GenKind(c) == GeneratedTile(seed, c[1], c[2])[1]
HitsOn(h, c) == IF c \in DOMAIN h THEN h[c] ELSE 0
StartCell == <<COLS \div 2, StartDepth>>

\* The initial durability of each diggable kind.
InitialDurability == (DIRT :> 1) @@ (BRONZE :> 3) @@ (SILVER :> 5) @@ (GOLD :> 8)
                     @@ (DIAMOND :> 12)

\* C1: a tile of kind K other than Rock with initial durability k is destroyed
\* by exactly k accepted mining hits: after h < k hits it still has kind K and
\* durability k - h and nothing has been credited for it, the k-th hit makes
\* it Empty, and that hit credits one unit of K when K is an ore and nothing
\* when K is Dirt.
C1_HitsToDestroy ==
  /\ \A c \in DOMAIN grid \ {StartCell} :
       GenKind(c) # ROCK =>
         LET k == InitialDurability[GenKind(c)]
             h == HitsOn(hits, c)
         IN /\ h <= k
            /\ h < k => grid[c] = <<GenKind(c), k - h>>
            /\ h = k => grid[c][1] = EMPTY
  /\ \A in \in Inputs :
       IsHit(in) =>
         LET n == Frame(Cur, in)
             c == Target(in)
             K == GenKind(c)
             h == HitsOn(hits, c) + 1
         IN /\ HitsOn(n.hits, c) = h
            /\ h < InitialDurability[K] => n.grid[c][1] = K /\ n.inventory = inventory
            /\ h = InitialDurability[K] =>
                 /\ n.grid[c][1] = EMPTY
                 /\ n.inventory = IF K \in Ores
                                  THEN [inventory EXCEPT ![K] = @ + 1]
                                  ELSE inventory

\* C1 witness: the eighth hit on a Gold tile has just destroyed it and the
\* Gold is in the inventory.
C1_Witness ==
  /\ branch = "destroy"
  /\ GenKind(<<ug_mole.grid_x, ug_mole.grid_y>>) = GOLD
  /\ HitsOn(hits, <<ug_mole.grid_x, ug_mole.grid_y>>) = 8
  /\ inventory[GOLD] >= 1

\* C2: at the end of every frame the rows from 0 through the row below the
\* mole are generated: with the mole at depth d, d + 1 is at most the highest
\* generated depth and every cell of rows 0..d+1 is in the map.
C2_GeneratedAhead ==
  /\ ug_mole.grid_y + 1 <= highest_y_generated
  /\ \A x \in 0..(COLS - 1), y \in 0..(ug_mole.grid_y + 1) : <<x, y>> \in DOMAIN grid

\* C2 witness: the mole has dug down to DescentDepth, below every row that
\* existed when it entered the mine, and the camera is seven rows behind.
C2_Witness ==
  /\ frameNo > 0
  /\ ug_mole.grid_y = DescentDepth
  /\ ug_mole.grid_y > ROWS + 5
  /\ branch = "destroy"
  /\ CameraTarget(ug_mole.grid_y) - camera_y > 7 * TILE_SIZE * CamScale

C4_RockNeverChanges ==
  /\ \A c \in DOMAIN grid :
       GenKind(c) = ROCK =>
         /\ grid[c] = <<ROCK, 9999>>
         /\ HitsOn(hits, c) = 0
         /\ ~At(Cur, c)
  /\ \A in \in Inputs :
       Accepted(in) /\ Target(in) \in DOMAIN grid /\ grid[Target(in)][1] = ROCK =>
         LET n == Frame(Cur, in)
         IN /\ n.grid[Target(in)] = grid[Target(in)]
            /\ SamePlace(n)
            /\ n.inventory = inventory
            /\ NoEmission(n)

\* C4 witness: an input directed at a Rock cell beside or below the mole has
\* just been handled, and the cell is Rock still.
C4_Witness ==
  /\ branch = "rock"
  /\ \E c \in DOMAIN grid :
       /\ Abs(c[1] - ug_mole.grid_x) + Abs(c[2] - ug_mole.grid_y) = 1
       /\ GenKind(c) = ROCK
       /\ grid[c] = <<ROCK, 9999>>

\* C5: an accepted input aimed at Rock or outside the grid's bounds leaves
\* the mole where it is and Idle, does not reset the cooldown (it keeps the
\* value left after the frame's time is subtracted), and changes no cell of
\* the terrain, nothing in the inventory and emits no particle.
C5_RefusedInput ==
  \A in \in Inputs :
    (/\ Accepted(in)
     /\ \/ ~InRange(Target(in))
        \/ Target(in) \in DOMAIN grid /\ grid[Target(in)][1] = ROCK) =>
      LET n == Frame(Cur, in)
      IN /\ SamePlace(n)
         /\ n.ug_mole.state = "IDLE"
         /\ n.ug_mole.can_move_timer = TimerAfter(in)
         /\ SameCells(n)
         /\ n.inventory = inventory
         /\ NoEmission(n)

\* C5 witness: an input aimed at Rock has just been refused; the mole is Idle
\* and its cooldown was left expired.
C5_Witness ==
  /\ branch = "rock"
  /\ ug_mole.state = "IDLE"
  /\ ug_mole.can_move_timer <= 0

\* C6: an accepted hit on a tile with durability above 1 leaves the mole in
\* place, lowers the tile's durability by exactly 1 and keeps its kind, puts
\* the mole in Mining, and sets the cooldown to max(50, 250 - 20 * level).
C6_SurvivingHit ==
  \A in \in Inputs :
    IsHit(in) /\ grid[Target(in)][2] > 1 =>
      LET n == Frame(Cur, in)
          c == Target(in)
      IN /\ SamePlace(n)
         /\ n.grid[c] = <<grid[c][1], grid[c][2] - 1>>
         /\ n.ug_mole.state = "MINING"
         /\ n.ug_mole.can_move_timer =
              IF 250 - 20 * shovel_level > 50 THEN 250 - 20 * shovel_level ELSE 50

\* C6 witness: with the level-2 shovel a hit has just left its tile standing;
\* the cooldown is 210.
C6_Witness ==
  /\ branch = "dig"
  /\ shovel_level = 2
  /\ ug_mole.state = "MINING"
  /\ ug_mole.can_move_timer = 210

\* C7 as stated: every accepted hit puts the mole in Mining, the hit that
\* destroys the tile included.
C7_EveryHitMining ==
  \A in \in Inputs : IsHit(in) => Frame(Cur, in).ug_mole.state = "MINING"

\* C7 amended: an accepted hit that leaves the tile standing puts the mole in
\* Mining; the hit that destroys the tile puts it in the state of a move,
\* Crawling when directed sideways or up and Idle when directed down.
C7_HitState ==
  \A in \in Inputs :
    IsHit(in) =>
      LET n == Frame(Cur, in)
          d == Direction(in.keys)
      IN n.ug_mole.state =
           IF grid[Target(in)][2] > 1 THEN "MINING"
           ELSE IF d[1] # 0 \/ d[2] < 0 THEN "CRAWLING"
           ELSE "IDLE"

\* C7 witness: a hit directed down has just destroyed its tile and the mole
\* is Idle, not Mining.
C7_Witness ==
  /\ frameNo > 0
  /\ branch = "destroy"
  /\ HitsOn(hits, <<ug_mole.grid_x, ug_mole.grid_y>>) >= 1
  /\ ug_mole.state = "IDLE"

\* C8: the hit that destroys a tile moves the mole into the tile's cell,
\* leaves the cell Empty and sets the cooldown to the move interval, 150.
C8_DestroyingHit ==
  \A in \in Inputs :
    IsHit(in) /\ grid[Target(in)][2] <= 1 =>
      LET n == Frame(Cur, in)
      IN /\ At(n, Target(in))
         /\ n.grid[Target(in)][1] = EMPTY
         /\ n.ug_mole.can_move_timer = 150

\* C8 witness: the last hit on an ore tile has just been made; the mole
\* stands in its cell, the cell is Empty and the cooldown is 150.
C8_Witness ==
  /\ branch = "destroy"
  /\ GenKind(<<ug_mole.grid_x, ug_mole.grid_y>>) \in Ores
  /\ grid[<<ug_mole.grid_x, ug_mole.grid_y>>][1] = EMPTY
  /\ ug_mole.can_move_timer = 150

\* The hub's walk runs in the frame on input in.
Walks(in) ==
  /\ global_state = "OVERWORLD" /\ overworld_substate = "WALK"
  /\ IF show_inventory
     THEN in.esc \/ (in.pressed /\ ~mouse_was_pressed
                     /\ is_clicked(btn_close_inv, in.pos, in.pressed))
     ELSE ~(in.pressed /\ ~mouse_was_pressed
            /\ is_clicked(btn_inv_toggle, in.pos, in.pressed))
  /\ ow_mole.can_move_timer - in.dt <= 0
  /\ Direction(in.keys) # <<0, 0>>

WalkTarget(in) ==
  <<ow_mole.grid_x + Direction(in.keys)[1], ow_mole.grid_y + Direction(in.keys)[2]>>

\* The hub's floor: the cells of the level map that are not wall; the spawn
\* and torch marks stand on floor.
IsFloor(c) ==
  /\ c[1] >= 0 /\ c[1] < 20 /\ c[2] >= 0 /\ c[2] < 14
  /\ LEVEL_MAP[c[2] + 1][c[1] + 1] \in {".", "S", "t"}

\* C9: an accepted input aimed at an Empty cell of the mine, or at a floor
\* cell of the hub, moves the mole into that cell, sets the cooldown to 150,
\* and leaves it Crawling when the move is sideways or up and Idle when it is
\* down; no cell of the terrain and nothing in the inventory changes.
C9_Move ==
  \A in \in Inputs :
    LET n == Frame(Cur, in)
        d == Direction(in.keys)
        after == IF d[1] # 0 \/ d[2] < 0 THEN "CRAWLING" ELSE "IDLE"
    IN /\ (Accepted(in) /\ Target(in) \in DOMAIN grid
           /\ grid[Target(in)][1] = EMPTY) =>
            /\ At(n, Target(in))
            /\ n.ug_mole.can_move_timer = 150
            /\ n.ug_mole.state = after
            /\ SameCells(n)
            /\ n.inventory = inventory
       /\ (Walks(in) /\ IsFloor(WalkTarget(in))) =>
            /\ n.ow_mole.grid_x = WalkTarget(in)[1]
            /\ n.ow_mole.grid_y = WalkTarget(in)[2]
            /\ n.ow_mole.can_move_timer = 150
            /\ n.ow_mole.state = after
            /\ n.grid = grid
            /\ n.inventory = inventory

\* C9 witness: the mole has just stepped down into an Empty cell of the mine
\* and is Idle with the cooldown at 150.
C9_Witness ==
  /\ branch = "move"
  /\ ug_mole.state = "IDLE"
  /\ ug_mole.can_move_timer = 150
  /\ grid[<<ug_mole.grid_x, ug_mole.grid_y>>][1] = EMPTY

\* C10: a frame whose cooldown is still positive after the frame's time is
\* subtracted changes neither the mole's position nor its state, no cell of
\* the terrain, nothing in the inventory, and emits no particle; a frame with
\* the cooldown expired and no directional input leaves the mole Idle.
C10_BlockedFrame ==
  \A in \in Inputs :
    LET n == Frame(Cur, in)
    IN /\ (Plays(in) /\ TimerAfter(in) > 0) =>
            /\ SamePlace(n)
            /\ n.ug_mole.state = ug_mole.state
            /\ n.ug_mole.can_move_timer = TimerAfter(in)
            /\ SameCells(n)
            /\ n.inventory = inventory
            /\ NoEmission(n)
       /\ (Plays(in) /\ TimerAfter(in) <= 0 /\ Direction(in.keys) = <<0, 0>>) =>
            n.ug_mole.state = "IDLE"

\* C10 witness: a frame has just been blocked by the cooldown of a hit, and
\* the mole is in Mining still.
C10_Witness ==
  /\ branch = "wait"
  /\ ug_mole.state = "MINING"
  /\ ug_mole.can_move_timer > 0

Min(a, b) == IF a <= b THEN a ELSE b

\* C11 as stated: for every count N >= 0 and a pool with F inactive slots,
\* emit(count=N) activates exactly min(N, F) particles and leaves the active
\* ones as they were; the active particles never exceed the pool's capacity.
C11_EmitMin ==
  /\ Cardinality(ActiveSlots(pool)) <= PoolSize
  /\ \A N \in EmitCounts :
       LET q == emit(pool, N)
           F == PoolSize - Cardinality(ActiveSlots(pool))
       IN /\ Cardinality(ActiveSlots(q)) = Cardinality(ActiveSlots(pool)) + Min(N, F)
          /\ \A i \in ActiveSlots(pool) : q[i] = pool[i]

\* C11 for the counts the loop handles: the same, for every count N >= 1.
C11_EmitMinPositive ==
  /\ Cardinality(ActiveSlots(pool)) <= PoolSize
  /\ \A N \in EmitCounts \ {0} :
       LET q == emit(pool, N)
           F == PoolSize - Cardinality(ActiveSlots(pool))
       IN /\ Cardinality(ActiveSlots(q)) = Cardinality(ActiveSlots(pool)) + Min(N, F)
          /\ \A i \in ActiveSlots(pool) : q[i] = pool[i]

\* The rows of which the map holds a cell.
Rows(g) == {c[2] : c \in DOMAIN g}

\* C12: generate_row is idempotent: called for a row that exists, whatever
\* the random draws would be, it changes no cell of the map, damaged and
\* emptied cells of that row included.
C12_GenerateRowIdempotent ==
  \A y_depth \in Rows(grid), o \in DrawOutcomes : generate_row(grid, y_depth, o) = grid

\* C12 witness: generate_row has just been called for a row that exists and
\* holds an emptied cell, beside a row with a damaged cell.
C12_Witness ==
  /\ branch = "row_exists"
  /\ \E c \in DOMAIN grid : c[2] = SafeShaft - 1 /\ grid[c][1] = EMPTY
  /\ \E c \in DOMAIN grid :
       grid[c][1] \in Ores /\ grid[c][2] < InitialDurability[grid[c][1]]

\* C13: ensure_generated is monotonic: with a target not above the frontier
\* it changes neither the map nor the frontier; with a target above it the
\* map gains exactly the cells of rows frontier+1..target, every cell that
\* existed is unchanged and the frontier becomes the target.  The frontier
\* never decreases and every row 0..frontier has all COLS columns.
C13_EnsureGeneratedMonotonic ==
  /\ \A x \in 0..(COLS - 1), y \in 0..highest_y_generated : <<x, y>> \in DOMAIN grid
  /\ \A target_y \in EnsureArgs, o \in DrawOutcomes :
       LET t == ensure_generated([grid |-> grid,
                                  highest_y_generated |-> highest_y_generated],
                                 target_y, o)
       IN /\ t.highest_y_generated >= highest_y_generated
          /\ IF target_y <= highest_y_generated
             THEN t.grid = grid /\ t.highest_y_generated = highest_y_generated
             ELSE /\ t.highest_y_generated = target_y
                  /\ DOMAIN t.grid =
                       DOMAIN grid \cup {<<x, y>> : x \in 0..(COLS - 1),
                                                   y \in (highest_y_generated + 1)..target_y}
                  /\ \A c \in DOMAIN grid : t.grid[c] = grid[c]

\* C13 witness: ensure_generated has just been called with a target not
\* above the frontier, on a map that holds an emptied and a damaged cell.
C13_Witness ==
  /\ branch = "ensure_below"
  /\ highest_y_generated >= ROWS + 5
  /\ \E c \in DOMAIN grid : c[2] = SafeShaft - 1 /\ grid[c][1] = EMPTY
  /\ \E c \in DOMAIN grid :
       grid[c][1] \in Ores /\ grid[c][2] < InitialDurability[grid[c][1]]

\* The full durability of each kind generate_row can draw.
FullDurability == InitialDurability @@ (ROCK :> 9999)

\* C14: every cell generate_row produces for a row above depth 10 is Dirt
\* with durability 1, in every column and whatever the draws; every cell it
\* produces for a row at depth 10 or below has one of the six kinds Dirt,
\* Rock, Bronze, Silver, Gold, Diamond, never Empty, with that kind's full
\* durability.
C14_GeneratedCells ==
  \A y_depth \in (GenerateArgs \cup 0..(highest_y_generated + 2)) \ Rows(grid),
     o \in DrawOutcomes :
    LET g == generate_row(grid, y_depth, o)
    IN \A x \in 0..(COLS - 1) :
         /\ <<x, y_depth>> \in DOMAIN g
         /\ IF y_depth < 10
            THEN g[<<x, y_depth>>] = <<DIRT, 1>>
            ELSE /\ g[<<x, y_depth>>][1] \in {DIRT, ROCK, BRONZE, SILVER, GOLD, DIAMOND}
                 /\ g[<<x, y_depth>>][2] = FullDurability[g[<<x, y_depth>>][1]]

\* C14 witness: generate_row has just produced a row; rows 9 and 10 are on
\* the map, row 9 all Dirt and row 10 with an ore in it.
C14_Witness ==
  /\ branch = "row_new"
  /\ \A x \in 0..(COLS - 1) :
       <<x, 9>> \in DOMAIN grid /\ grid[<<x, 9>>] = <<DIRT, 1>>
  /\ \E x \in 0..(COLS - 1) :
       <<x, 10>> \in DOMAIN grid /\ grid[<<x, 10>>][1] \in Ores

\* C15: the dig cooldown is non-increasing in the shovel's level: the same
\* hit made with the shovel one level higher never sets a longer cooldown,
\* sets a strictly shorter one while the cooldown is above 50, and the
\* cooldown set is never below 50.
C15_CooldownMonotonic ==
  \A in \in Inputs :
    IsHit(in) /\ grid[Target(in)][2] > 1 =>
      LET this == Frame(Cur, in).ug_mole.can_move_timer
          next == Frame([Cur EXCEPT !.shovel_level = shovel_level + 1],
                        in).ug_mole.can_move_timer
      IN /\ this >= 50
         /\ next >= 50
         /\ next <= this
         /\ this > 50 => next < this

\* C15 witness: a hit made with a shovel of level 11 has just left its tile
\* standing; the cooldown set is the floor, 50.
C15_Witness ==
  /\ branch = "dig"
  /\ shovel_level = 11
  /\ ug_mole.can_move_timer = 50

\* C16 as stated: for row 25 and every row deeper than 20 the weights
\* generate_row samples with have Gold and Diamond above their unscaled
\* weights, 1 and 1, and Rock and Bronze at most their unscaled weights, 10
\* and 8.  (Weights are in hundredths.)
C16_WeightsAsStated ==
  \A y_depth \in Rows(grid) :
    y_depth > 20 =>
      /\ Weights(y_depth)[5] > 100
      /\ Weights(y_depth)[6] > 100
      /\ Weights(y_depth)[2] <= 1000
      /\ Weights(y_depth)[3] <= 800

\* C16 amended: for row 25 and every row deeper than 20, Gold and Diamond
\* are above their unscaled weights 1 and 1; Rock is above its unscaled
\* weight 10; Bronze is above its unscaled weight 8 for rows above 90 and at
\* most 8 from row 90 on.
C16_Weights ==
  \A y_depth \in Rows(grid) :
    y_depth > 20 =>
      /\ Weights(y_depth)[5] > 100
      /\ Weights(y_depth)[6] > 100
      /\ Weights(y_depth)[2] > 1000
      /\ IF y_depth < 90 THEN Weights(y_depth)[3] > 800 ELSE Weights(y_depth)[3] <= 800

\* C16 witness: row 25 and a row from 90 on have just been generated.
C16_Witness ==
  /\ branch = "row_new"
  /\ 25 \in Rows(grid)
  /\ \E y_depth \in Rows(grid) : y_depth >= 90

\* C17: every cell of the map has a durability from 0 to the full durability
\* of its kind: an Empty cell has durability 0, every other cell at least 1,
\* and no durability is negative.
C17_DurabilityInRange ==
  \A c \in DOMAIN grid :
    /\ grid[c][2] >= 0
    /\ IF grid[c][1] = EMPTY
       THEN grid[c][2] = 0
       ELSE grid[c][2] >= 1 /\ grid[c][2] <= FullDurability[grid[c][1]]

\* C17 witness: a hit has just destroyed a tile, whose cell is Empty with
\* durability 0, and another tile stands with one durability left.
C17_Witness ==
  /\ branch = "destroy"
  /\ grid[<<ug_mole.grid_x, ug_mole.grid_y>>] = <<EMPTY, 0>>
  /\ \E c \in DOMAIN grid : grid[c][1] \in Ores /\ grid[c][2] = 1

\* C18 as stated: every Empty cell of the map became Empty by a mining hit
\* that took its durability to 0; no other operation, initialisation
\* included, assigns Empty to a cell.
C18_EmptyOnlyByMining ==
  \A c \in DOMAIN grid : grid[c][1] = EMPTY => HitsOn(hits, c) >= 1

\* C18 amended: the cell the mine's mole starts on is set Empty when the
\* game is initialised; every other cell is Empty exactly when mining hits
\* have taken its durability to 0, and a frame turns a cell Empty only by
\* the hit that takes its last durability.
C18_EmptyByMiningOrStart ==
  /\ StartCell \in DOMAIN grid /\ grid[StartCell] = <<EMPTY, 0>>
  /\ HitsOn(hits, StartCell) = 0
  /\ \A c \in DOMAIN grid \ {StartCell} :
       grid[c][1] = EMPTY <=> (HitsOn(hits, c) >= 1 /\ grid[c][2] = 0)
  /\ \A in \in Inputs :
       LET n == Frame(Cur, in)
       IN \/ n.grid = grid
          \/ \A c \in DOMAIN n.grid :
               (n.grid[c][1] = EMPTY /\ (c \notin DOMAIN grid \/ grid[c][1] # EMPTY)) =>
                 IsHit(in) /\ c = Target(in) /\ grid[c][2] = 1

\* C18 witness: the mole has left the cell it started on, which is Empty
\* without having taken a hit, and has just emptied another cell by a hit.
C18_Witness ==
  /\ frameNo > 0
  /\ branch = "destroy"
  /\ ~At(Cur, StartCell)
  /\ grid[StartCell][1] = EMPTY
  /\ HitsOn(hits, StartCell) = 0
  /\ HitsOn(hits, <<ug_mole.grid_x, ug_mole.grid_y>>) >= 1

\* The last frame entered the mine from the surface.
Entered ==
  /\ global_state = "UNDERGROUND"
  /\ branch \in {"ow_move", "ow_blocked", "ow_idle", "ow_wait"}

\* What h hits leave of a generated cell of kind k.
Damaged(c) ==
  \/ grid[c] = <<EMPTY, 0>>
  \/ /\ grid[c][1] \in DOMAIN InitialDurability
     /\ grid[c][2] = InitialDurability[grid[c][1]] - HitsOn(hits, c)

\* C19 as stated: when the mine has been entered again, no cell hit in the
\* previous run is still damaged or Empty and no particle is active.
C19_DiscardedOnExit ==
  Entered =>
    /\ \A c \in DOMAIN grid : HitsOn(hits, c) >= 1 => ~Damaged(c)
    /\ ActiveSlots(pool) = {}

\* C19, amended: terrain and particle state are kept for the life of the
\* process.  Every cell that was hit is still damaged by exactly its hits, or
\* Empty, in every state, the one after re-entering the mine included; a
\* frame that starts on the surface changes no cell, generates no row and
\* leaves the particles as they are, aging them once when it enters the
\* mine; the frame that leaves the mine clears no particle and changes no
\* cell but the one it hits.
C19_KeptOnExit ==
  /\ \A c \in DOMAIN hits : c \in DOMAIN grid /\ Damaged(c)
  /\ \A in \in Inputs :
       LET n == Frame(Cur, in)
       IN /\ (global_state = "OVERWORLD" /\ ~crashed) =>
               /\ n.grid = grid
               /\ n.highest_y_generated = highest_y_generated
               /\ n.hits = hits
               /\ NoEmission(n)
          /\ (global_state = "UNDERGROUND" /\ ~crashed
              /\ n.global_state = "OVERWORLD") =>
               /\ \A c \in DOMAIN grid \ {Target(in)} :
                    c \in DOMAIN n.grid /\ n.grid[c] = grid[c]
               /\ ActiveSlots(pool) \subseteq ActiveSlots(n.pool)
               /\ \A i \in ActiveSlots(pool) : n.pool[i] = pool[i]

C19_Witness ==
  /\ frameNo > 0
  /\ Entered
  /\ ActiveSlots(pool) # {}
  /\ \E c \in DOMAIN hits : grid[c] = <<EMPTY, 0>>

\* The distance between the camera and the target of row grid_y.
CameraDistance(cam, grid_y) == Abs(CameraTarget(grid_y) - cam)

\* The frame updates the camera.
Follows == global_state = "UNDERGROUND" /\ ~show_inventory /\ ~crashed

LifeUpdates == (FullLife + LifeStep - 1) \div LifeStep

\* The updates an active particle of the given life has had since emit.
UpdatesSince(life) == (FullLife - life) \div LifeStep

\* Pool q is pool p after j updates without emit: from there on, a slot is
\* active exactly while it was active in p and has had fewer than
\* LifeUpdates updates since its emission, and none is after LifeUpdates.
RECURSIVE AgesOut(_, _, _)
AgesOut(p, q, j) ==
  \/ j > LifeUpdates + 1
  \/ /\ \A i \in 1..Len(p) :
          q[i].active <=> (p[i].active /\ UpdatesSince(p[i].life) + j < LifeUpdates)
     /\ j >= LifeUpdates => ActiveSlots(q) = {}
     /\ \A r \in {update_and_draw(q)} : AgesOut(p, r, j + 1)

\* C21: emit gives a particle life 255; a particle that has had k updates
\* since its emission is active after each further update up to the 31st
\* since emission and inactive from the 32nd on; an inactive slot stays
\* inactive under updates and is reclaimed only by emit; so after 32 updates
\* without emit no particle of the pool is active.
C21_ParticleLife ==
  /\ LifeUpdates = 32
  /\ \A N \in EmitCounts :
       \A i \in ActiveSlots(emit(pool, N)) \ ActiveSlots(pool) :
         emit(pool, N)[i].life = FullLife
  /\ \A i \in ActiveSlots(pool) :
       /\ pool[i].life = FullLife - UpdatesSince(pool[i].life) * LifeStep
       /\ UpdatesSince(pool[i].life) < LifeUpdates
  /\ AgesOut(pool, pool, 0)

\* C21 witness: an update has just deactivated particles, their 32nd, while
\* a younger particle is still active.
C21_Witness ==
  /\ frameNo > 0
  /\ \E i \in 1..Len(pool) :
       ~pool[i].active /\ pool[i].life = FullLife - LifeUpdates * LifeStep
  /\ \E i \in ActiveSlots(pool) : pool[i].life = FullLife - LifeStep

\* The mole's cell.
Place(n) == <<n.ug_mole.grid_x, n.ug_mole.grid_y>>

\* C22: in every state the underground mole is inside the grid, column in
\* 0..COLS-1 and depth >= 0, and the cell it is in exists and is Empty; a
\* frame, whatever its input, moves it by at most one cell along one axis,
\* and when it moves with several keys held it goes left if left is held,
\* else right if right is held, else down if down is held, else up.
C22_MoleInGrid ==
  /\ ug_mole.grid_x >= 0 /\ ug_mole.grid_x < COLS /\ ug_mole.grid_y >= 0
  /\ Place(Cur) \in DOMAIN grid
  /\ grid[Place(Cur)][1] = EMPTY
  /\ \A in \in Inputs :
       LET n == Frame(Cur, in)
           dx == n.ug_mole.grid_x - ug_mole.grid_x
           dy == n.ug_mole.grid_y - ug_mole.grid_y
       IN /\ Abs(dx) + Abs(dy) <= 1
          /\ Abs(dx) + Abs(dy) = 1 =>
               /\ "L" \in in.keys => dx = 0 - 1
               /\ ("L" \notin in.keys /\ "R" \in in.keys) => dx = 1
               /\ (in.keys \cap {"L", "R"} = {} /\ "D" \in in.keys) => dy = 1
               /\ (in.keys \cap {"L", "R", "D"} = {}) => ("U" \in in.keys /\ dy = 0 - 1)

\* C22 witness: the mole has dug its way into the column right of its
\* shaft, and stands in the cell that its hit emptied.
C22_Witness ==
  /\ frameNo > 0
  /\ branch = "destroy"
  /\ HitsOn(hits, Place(Cur)) >= 1
  /\ Place(Cur)[1] = COLS \div 2 + 1
  /\ grid[Place(Cur)] = <<EMPTY, 0>>

\* Map h continues map g: every cell of g is a cell of h, with a durability
\* that is not higher, and with the same kind unless the cell was neither
\* Empty nor Rock in g and is Empty in h.
Continues(g, h) ==
  \A c \in DOMAIN g :
    /\ c \in DOMAIN h
    /\ h[c][2] <= g[c][2]
    /\ h[c][1] # g[c][1] => (g[c][1] \notin {EMPTY, ROCK} /\ h[c][1] = EMPTY)

\* The rows Terrain.ensure_generated(ROWS + 5) of line 319 has generated,
\* before line 320 empties the start cell.
FirstRows == ensure_generated(NewTerrain, ROWS + 5, seed).grid

\* C23: the terrain is monotone over a run.  The map of every state
\* continues the map generated at start-up, and the map after a frame,
\* whatever its input, continues the map before it: no cell is removed, no
\* durability rises, a kind changes only from a kind other than Empty and
\* Rock to Empty, and an Empty cell stays Empty.
C23_TerrainMonotone ==
  /\ [](Continues(FirstRows, grid))
  /\ [][grid' = grid \/ Continues(grid, grid')]_vars

\* C23 witness: frames have run, rows have been generated below those of
\* start-up, and the map holds an emptied cell and a damaged one.
C23_Witness ==
  /\ frameNo > 0
  /\ \E c \in DOMAIN grid : c \notin DOMAIN FirstRows
  /\ \E c \in DOMAIN hits : grid[c][1] = EMPTY
  /\ \E c \in DOMAIN hits : grid[c][1] # EMPTY

\* Mole b is where mole a is, in the same state, with the same cooldown.
SameMole(a, b) ==
  /\ b.grid_x = a.grid_x /\ b.grid_y = a.grid_y
  /\ b.state = a.state
  /\ b.can_move_timer = a.can_move_timer

\* State n holds the simulation of the current state: both moles, the
\* terrain and its frontier, the camera, the modes and the economy.
Frozen(n) ==
  /\ SameMole(ow_mole, n.ow_mole)
  /\ SameMole(ug_mole, n.ug_mole)
  /\ n.grid = grid
  /\ n.highest_y_generated = highest_y_generated
  /\ n.camera_y = camera_y
  /\ n.global_state = global_state
  /\ n.overworld_substate = overworld_substate
  /\ n.money = money
  /\ n.inventory = inventory
  /\ n.shovel_level = shovel_level

\* The overlay is open only in the hub sub-mode WALK, and the sub-mode is
\* DIALOGUE or SHOP only on the surface.
ModesAgree ==
  /\ show_inventory => overworld_substate = "WALK"
  /\ overworld_substate \in {"DIALOGUE", "SHOP"} => global_state = "OVERWORLD"

\* The input closes the overlay: an ESC key-down, or a click on "Close".
Closes(in) ==
  \/ in.esc
  \/ in.pressed /\ ~mouse_was_pressed /\ is_clicked(btn_close_inv, in.pos, in.pressed)

====
